---- MODULE Spec2Model ----
(***************************************************************************)
(* Temporal scheduling engine of the Masjid prayer-time display            *)
(* (src/src/main.py): calendar store, lunar date resolver, event scheduler *)
(* and signal trigger, driven by the polling loop MasjidDisplay.run.       *)
(*                                                                         *)
(* Time.  An instant is an integer number of clock units since 00:00:00 of *)
(* day 0; there are U units in a second.  Day 0 is a Thursday, so day 1 is *)
(* a Friday.  The clock is observed only at the instants of Grid: a dense  *)
(* run of units around every time of day that a calendar row can hold,     *)
(* around midnight and around 04:00.  Between two neighbouring runs no     *)
(* comparison made by the program changes its outcome.                     *)
(*                                                                         *)
(* Strings.  The text "" is the empty tuple << >>.  A 24-hour cell "HH:MM" *)
(* of the calendar source is the pair <<HH, MM>>; a 12-hour display string *)
(* "HH:MM AM" is the triple <<HH, MM, "AM">>.  Python's None for a missing *)
(* row is also << >>: the program only ever tests a row for truthiness.    *)
(* In a row read by csv.DictReader a cell may also be None (restval, the   *)
(* 1-tuple <<"None">>) or a list of the surplus fields (the 4-tuple        *)
(* <<"[", HH, MM, "]">> for the list ["HH:MM"]).                           *)
(***************************************************************************)
EXTENDS Integers, Sequences, FiniteSets, TLC

\* ---------------------------------------------------------------- bounds
U == 2          \* clock units per second
MaxDay == 1     \* the clock runs over days 0 .. MaxDay
MaxSkip == 3    \* an unconstrained poll may land up to MaxSkip grid instants ahead
MaxCount == 2   \* the history counters of sounds stop counting at MaxCount
MaxFont == 1    \* a font size is adjusted within MaxFont steps of its default or of 1

\* ------------------------------------------------------- program constants
FRIDAY == 4
islamic_date_offset == 0 - 1

None == << >>
NoEvent == "None"

Prayers == <<"Fajr", "Dhuhr", "Asr", "Maghrib", "Isha", "Jummah">>
PrayerNames == {Prayers[i] : i \in 1..Len(Prayers)}
\* f"{prayer}_Iqamah"
IqamahKeys == [p \in PrayerNames |-> p \o "_Iqamah"]
IqamahKey(prayer) == IqamahKeys[prayer]
Keys == PrayerNames \cup {IqamahKey(p) : p \in PrayerNames}

\* ------------------------------------------------------------ civil time
DayUnits == 86400 * U
DateOf(t) == t \div DayUnits
Weekday(d) == (d + 3) % 7
IsFriday(t) == Weekday(DateOf(t)) = FRIDAY
Midnight(d) == d * DayUnits
AtTime(d, h, m, s) == Midnight(d) + (h * 3600 + m * 60 + s) * U

\* datetime.strptime(time_str, '%H:%M'): <<hour, minute>> or << >> on ValueError
strptime24(time_str) ==
    IF /\ Len(time_str) = 2
       /\ time_str[1] \in 0..23
       /\ time_str[2] \in 0..59
    THEN time_str
    ELSE << >>

\* a 12-hour clock that shows the hours 0 and 12 as 00
strftime12_zero_hour(time_obj) ==
    << time_obj[1] % 12,
       time_obj[2],
       IF time_obj[1] < 12 THEN "AM" ELSE "PM" >>

\* time_obj.strftime('%I:%M %p')
strftime12(time_obj) ==
    << IF time_obj[1] % 12 = 0 THEN 12 ELSE time_obj[1] % 12,
       time_obj[2],
       IF time_obj[1] < 12 THEN "AM" ELSE "PM" >>

\* datetime.strptime(time_str, '%I:%M %p'): <<second of the day>> or << >> on ValueError
strptime12(time_str) ==
    IF /\ Len(time_str) = 3
       /\ time_str[1] \in 1..12
       /\ time_str[2] \in 0..59
       /\ time_str[3] \in {"AM", "PM"}
    THEN << ((time_str[1] % 12) + (IF time_str[3] = "PM" THEN 12 ELSE 0)) * 3600
            + time_str[2] * 60 >>
    ELSE << >>

\* strptime(...).replace(year, month, day of t): the instant of time_str on the date of t
OnDateOf(parsed, t) == Midnight(DateOf(t)) + parsed[1] * U

\* what csv.DictReader puts in the columns a short line has no field for
restval == <<"None">>

\* the key csv.DictReader files the surplus fields of a long line under
restkey == "None"

\* the value is a list, not a str
IsList(value) == Len(value) = 4

\* the exception that leaves format_prayer_time: strptime() raises TypeError
\* for an argument that is not a str, and only ValueError is caught
format_prayer_time_raises(time_str) ==
    IF time_str # << >> /\ time_str # restval /\ IsList(time_str)
    THEN "TypeError"
    ELSE "none"

\* the value format_prayer_time returns when no exception leaves it
format_prayer_time(time_str) ==
    IF time_str = << >> \/ time_str = restval
    THEN << >>
    ELSE IF strptime24(time_str) = << >>
         THEN << >>
         ELSE strftime12(strptime24(time_str))

\* dict.get(key, "") on a row; a falsy row is handled by the callers
Get(row, key) == IF key \in DOMAIN row THEN row[key] ELSE << >>

\* ------------------------------------------------------- calendar sources
\* The contents the file prayer_times.csv may have when it is read.  A row is
\* given by its non-empty cells; every other column of the row is empty.
T0530 == <<5, 30>>
T0545 == <<5, 45>>
T1300 == <<13, 0>>
T1330 == <<13, 30>>
T1800 == <<18, 0>>
T2359 == <<23, 59>>
TBad == <<25, 0>>

CsvRow(cells) == [k \in Keys |-> IF k \in DOMAIN cells THEN cells[k] ELSE << >>]

RowA == CsvRow([Fajr |-> T0530, Fajr_Iqamah |-> T0545,
                Dhuhr |-> T1300, Dhuhr_Iqamah |-> T1300,
                Jummah |-> T1330,
                Maghrib |-> T1800,
                Isha |-> T2359])
\* a short line: it ends before the columns of Jummah
RowB == [CsvRow([Fajr |-> T0545, Fajr_Iqamah |-> T0545,
                 Dhuhr |-> T1300, Dhuhr_Iqamah |-> T1330,
                 Asr |-> TBad, Asr_Iqamah |-> T1800,
                 Isha |-> T1800])
            EXCEPT !["Jummah"] = restval, !["Jummah_Iqamah"] = restval]
\* a long line: one field more than the header has columns
RowLong == [k \in Keys \cup {restkey} |->
               IF k = restkey THEN <<"[", 7, 0, "]">> ELSE RowA[k]]

\* file A: the same row on every day; file B: rows on the odd days only;
\* file C: header line only.
FileA == [d \in 0..(MaxDay + 1) |-> RowA]
FileB == [d \in {e \in 0..(MaxDay + 1) : e % 2 = 1} |-> RowB]
FileC == [d \in {} |-> RowA]
Files == {FileA, FileB, FileC}

\* file D: the lines of file A and one long line
FileD == [d \in 0..(MaxDay + 1) |-> IF d = 0 THEN RowLong ELSE RowA]

\* what open(filename) finds: a file with its rows, or no file; date_column
\* tells whether the header line has a column "Date"
Sources == {[found |-> TRUE, date_column |-> TRUE, rows |-> f] : f \in Files}
           \cup {[found |-> FALSE, date_column |-> TRUE, rows |-> FileC]}
           \cup {[found |-> TRUE, date_column |-> FALSE, rows |-> FileA],
                 [found |-> TRUE, date_column |-> TRUE, rows |-> FileD]}

EmptyStore == [d \in {} |-> RowA]

\* the exception that leaves load_prayer_times: row["Date"] raises KeyError,
\* format_prayer_time may raise TypeError, and only FileNotFoundError is caught
load_prayer_times_raises(source) ==
    IF ~source.found \/ DOMAIN source.rows = {}
    THEN "none"
    ELSE IF ~source.date_column
         THEN "KeyError"
         ELSE IF \E d \in DOMAIN source.rows : \E key \in DOMAIN source.rows[d] :
                     format_prayer_time_raises(source.rows[d][key]) # "none"
              THEN "TypeError"
              ELSE "none"

\* the store load_prayer_times returns when no exception leaves it
load_prayer_times(source) ==
    IF ~source.found
    THEN EmptyStore
    ELSE [d \in DOMAIN source.rows |->
            [key \in DOMAIN source.rows[d] |-> format_prayer_time(source.rows[d][key])]]

\* prayer_times.get(date string of t, None)
Lookup(prayer_times, d) == IF d \in DOMAIN prayer_times THEN prayer_times[d] ELSE None

get_today_prayer_times(prayer_times, t) == Lookup(prayer_times, DateOf(t))

\* ------------------------------------------------------------------ grid
TimesOfDay == {T0530, T0545, T1300, T1330, T1800, T2359}
GridAround(t) == {t + o : o \in (0 - 1)..(U + 1)}
Horizon == Midnight(MaxDay + 1) - 1
Grid == {g \in UNION ({GridAround(AtTime(d, tm[1], tm[2], 0)) : d \in 0..MaxDay, tm \in TimesOfDay}
                      \cup {{AtTime(d, 4, 0, 0)} : d \in 0..MaxDay}
                      \cup {GridAround(Midnight(d)) : d \in 0..(MaxDay + 1)}) :
            g >= AtTime(0, 4, 0, 0) /\ g <= Horizon}

\* the observable instant that follows t (t itself at the end of the grid)
RunStarts == {g \in Grid : g - 1 \notin Grid}
GridSucc(t) ==
    IF t + 1 \in Grid
    THEN t + 1
    ELSE IF \E g \in RunStarts : g > t
         THEN CHOOSE g \in RunStarts : g > t /\ \A h \in RunStarts : h > t => g <= h
         ELSE t

\* the k observable instants that follow t
RECURSIVE GridAfter(_, _)
GridAfter(t, k) ==
    IF k = 0 \/ GridSucc(t) = t
    THEN {}
    ELSE {GridSucc(t)} \cup GridAfter(GridSucc(t), k - 1)

\* ------------------------------------------------------------ variables
VARIABLES
    now,              \* the last reading of the system clock
    prayer_times,     \* self.prayer_times: the calendar store
    today_prayers,    \* self.today_prayers: the cached row of today, or None
    current_date,     \* self.current_date
    beep_played,      \* self.beep_played: the latch of every key
    current_time,     \* local of run: the instant of the last loop iteration
    fired,            \* the keys adhan_sound.play() was called for in the last iteration
    date_to_convert,  \* <<d>>: the civil date d was handed to the lunar conversion last
    countdown,        \* the result of _get_time_until_next_event in the last iteration
    win,              \* history: per key, the window the last iterations lay in
    occ,              \* history: per key, the occurrence it fired for last
    last,             \* history: the operation that ran last
    running,          \* the process has not exited
    raised,           \* the exception that ended the process, or "none"
    source_read,      \* history: what open(PRAYER_TIMES_FILE) found last
    current_theme_index,  \* self.current_theme_index
    settings,         \* self.settings
    hide_eid_message, \* self.hide_eid_message
    settings_file     \* the contents of settings.json: << >> if there is none, else <<dict>>

vars == <<now, prayer_times, today_prayers, current_date, beep_played,
          current_time, fired, date_to_convert, countdown, win, occ, last,
          running, raised, source_read, current_theme_index, settings,
          hide_eid_message, settings_file>>

\* the variables of the scheduling engine, and those of the user preferences
engine_vars == <<now, prayer_times, today_prayers, current_date, beep_played,
                 current_time, fired, date_to_convert, countdown, win, occ,
                 source_read>>
preference_vars == <<current_theme_index, settings, hide_eid_message>>

\* ---------------------------------------------------------- signal trigger
\* self.beep_played.get(key, False)
Played(played, key) == IF key \in DOMAIN played THEN played[key] ELSE FALSE

\* self.beep_played[key] = value
SetPlayed(played, key, value) ==
    [k \in DOMAIN played \cup {key} |-> IF k = key THEN value ELSE played[k]]

\* event_time <= current_time < event_time + timedelta(seconds=1)
InWindow(event_time, t) == event_time <= t /\ t < event_time + U

\* a trigger that also rearms before the event
PastWindow_or_before(event_time, t) == t > event_time + U \/ t < event_time

\* current_time > event_time + timedelta(seconds=1)
PastWindow(event_time, t) == t > event_time + U

\* a trigger that plays whatever the latch says
NotYetPlayed_ignored(played, key) == TRUE

\* not self.beep_played.get(key, False)
NotYetPlayed(played, key) == ~Played(played, key)

\* st = [beep_played, fired]: the latches and the sounds played so far in this iteration
check_time(st, time_str, key, t) ==
    IF time_str = << >>
    THEN st
    ELSE IF strptime12(time_str) = << >>
         THEN st
         ELSE LET event_time == OnDateOf(strptime12(time_str), t) IN
              IF InWindow(event_time, t)
              THEN IF NotYetPlayed(st.beep_played, key)
                   THEN [beep_played |-> SetPlayed(st.beep_played, key, TRUE),
                         fired |-> st.fired \cup {key}]
                   ELSE st
              ELSE IF PastWindow(event_time, t)
                   THEN [st EXCEPT !.beep_played = SetPlayed(@, key, FALSE)]
                   ELSE st

\* a trigger that skips no prayer
SkipPrayer_never(prayer, is_friday) == FALSE

\* (prayer == "Dhuhr" and is_friday) or (prayer == "Jummah" and not is_friday)
SkipPrayer(prayer, is_friday) ==
    \/ prayer = "Dhuhr" /\ is_friday
    \/ prayer = "Jummah" /\ ~is_friday

\* a trigger that checks every congregation time that is not empty
check_prayer_every_iqamah(st, prayer, row, t) ==
    IF SkipPrayer(prayer, IsFriday(t))
    THEN st
    ELSE LET adhan_time_str == Get(row, prayer)
             iqamah_time_str == Get(row, IqamahKey(prayer))
             st1 == check_time(st, adhan_time_str, prayer, t)
         IN IF iqamah_time_str # << >>
            THEN check_time(st1, iqamah_time_str, IqamahKey(prayer), t)
            ELSE st1

\* the body of the loop over the prayers, for one prayer
check_prayer(st, prayer, row, t) ==
    IF SkipPrayer(prayer, IsFriday(t))
    THEN st
    ELSE LET adhan_time_str == Get(row, prayer)
             iqamah_time_str == Get(row, IqamahKey(prayer))
             st1 == check_time(st, adhan_time_str, prayer, t)
         IN IF iqamah_time_str # << >> /\ iqamah_time_str # adhan_time_str
            THEN check_time(st1, iqamah_time_str, IqamahKey(prayer), t)
            ELSE st1

RECURSIVE check_prayers(_, _, _, _)
check_prayers(st, i, row, t) ==
    IF i > Len(Prayers)
    THEN st
    ELSE check_prayers(check_prayer(st, Prayers[i], row, t), i + 1, row, t)

_check_and_play_adhan(played, row, t) ==
    IF row = None
    THEN [beep_played |-> played, fired |-> {}]
    ELSE check_prayers([beep_played |-> played, fired |-> {}], 1, row, t)

\* ------------------------------------------------------- event scheduler
\* prayer_order, with prayer_order[1] = "Jummah" on a Friday
prayer_order(is_friday) ==
    IF is_friday
    THEN [<<"Fajr", "Dhuhr", "Asr", "Maghrib", "Isha">> EXCEPT ![2] = "Jummah"]
    ELSE <<"Fajr", "Dhuhr", "Asr", "Maghrib", "Isha">>

\* times_to_check: pairs <<time_str, is_iqamah_event>>
times_to_check(adhan_time_str, iqamah_time_str) ==
    (IF adhan_time_str # << >> THEN << <<adhan_time_str, FALSE>> >> ELSE << >>)
    \o (IF iqamah_time_str # << >> /\ adhan_time_str # iqamah_time_str
        THEN << <<iqamah_time_str, TRUE>> >>
        ELSE << >>)

\* a scheduler that does not filter out the instants that have passed
IsAhead_always(event_time, t) == TRUE

\* event_time > current_time
IsAhead(event_time, t) == event_time > t

\* a scheduler for which the candidate declared last wins a tie
check_event_last_wins(acc, prayer, entry, t) ==
    IF strptime12(entry[1]) = << >>
    THEN acc
    ELSE LET event_time == OnDateOf(strptime12(entry[1]), t) IN
         IF IsAhead(event_time, t)
         THEN LET time_diff == event_time - t IN
              IF acc.min_time_diff = << >> \/ time_diff <= acc.min_time_diff[1]
              THEN [next_event |-> prayer,
                    min_time_diff |-> <<time_diff>>,
                    is_iqamah |-> entry[2]]
              ELSE acc
         ELSE acc

\* acc = [next_event, min_time_diff, is_iqamah]; min_time_diff is << >> for None
\* and <<d>> for a difference of d clock units
check_event(acc, prayer, entry, t) ==
    IF strptime12(entry[1]) = << >>
    THEN acc
    ELSE LET event_time == OnDateOf(strptime12(entry[1]), t) IN
         IF IsAhead(event_time, t)
         THEN LET time_diff == event_time - t IN
              IF acc.min_time_diff = << >> \/ time_diff < acc.min_time_diff[1]
              THEN [next_event |-> prayer,
                    min_time_diff |-> <<time_diff>>,
                    is_iqamah |-> entry[2]]
              ELSE acc
         ELSE acc

RECURSIVE check_events(_, _, _, _, _)
check_events(acc, prayer, entries, j, t) ==
    IF j > Len(entries)
    THEN acc
    ELSE check_events(check_event(acc, prayer, entries[j], t), prayer, entries, j + 1, t)

RECURSIVE events_today(_, _, _, _, _)
events_today(acc, order, i, row, t) ==
    IF i > Len(order)
    THEN acc
    ELSE IF ~IsFriday(t) /\ order[i] = "Jummah"
         THEN events_today(acc, order, i + 1, row, t)
         ELSE events_today(
                  check_events(acc, order[i],
                               times_to_check(Get(row, order[i]),
                                              Get(row, IqamahKey(order[i]))),
                               1, t),
                  order, i + 1, row, t)

\* a fallback that looks Fajr up in the row of the current day
next_day_fajr_today(acc, store, t) ==
    IF acc.next_event # NoEvent
    THEN acc
    ELSE LET next_day_prayers == Lookup(store, DateOf(t))
             fajr_time_str == Get(next_day_prayers, "Fajr")
         IN IF next_day_prayers = None \/ fajr_time_str = << >>
               \/ strptime12(fajr_time_str) = << >>
            THEN acc
            ELSE [next_event |-> "Fajr",
                  min_time_diff |-> <<OnDateOf(strptime12(fajr_time_str), t) - t>>,
                  is_iqamah |-> FALSE]

\* "If no more events today, check for next day's Fajr"
next_day_fajr(acc, store, t) ==
    IF acc.next_event # NoEvent
    THEN acc
    ELSE LET next_day == t + DayUnits
             next_day_prayers == Lookup(store, DateOf(next_day))
             fajr_time_str == Get(next_day_prayers, "Fajr")
         IN IF next_day_prayers = None \/ fajr_time_str = << >>
               \/ strptime12(fajr_time_str) = << >>
            THEN acc
            ELSE [next_event |-> "Fajr",
                  min_time_diff |-> <<OnDateOf(strptime12(fajr_time_str), next_day) - t>>,
                  is_iqamah |-> FALSE]

\* a countdown without the added second
total_seconds_unbiased(time_diff) ==
    IF time_diff >= 0 THEN time_diff \div U ELSE 0 - ((0 - time_diff) \div U)

\* int(min_time_diff.total_seconds()) + 1
total_seconds(time_diff) ==
    (IF time_diff >= 0 THEN time_diff \div U ELSE 0 - ((0 - time_diff) \div U)) + 1

NoCountdown(min_time_diff) ==
    [next_event |-> NoEvent, hours |-> 0, minutes |-> 0, seconds |-> 0,
     is_iqamah |-> FALSE, min_time_diff |-> min_time_diff]

\* "Format the result".  The field min_time_diff is the local of that name at
\* the return; the other fields are the returned tuple.
format_result(acc) ==
    IF acc.min_time_diff # << >> /\ acc.min_time_diff[1] # 0
    THEN LET secs == total_seconds(acc.min_time_diff[1]) IN
         [next_event |-> acc.next_event,
          hours |-> secs \div 3600,
          minutes |-> (secs % 3600) \div 60,
          seconds |-> (secs % 3600) % 60,
          is_iqamah |-> acc.is_iqamah,
          min_time_diff |-> acc.min_time_diff]
    ELSE NoCountdown(acc.min_time_diff)

\* t is the reading of datetime.now() at the start of the function
_get_time_until_next_event(row, store, t) ==
    IF row = None
    THEN NoCountdown(<< >>)
    ELSE format_result(
             next_day_fajr(
                 events_today([next_event |-> NoEvent, min_time_diff |-> << >>,
                               is_iqamah |-> FALSE],
                              prayer_order(IsFriday(t)), 1, row, t),
                 store, t))

\* a resolver that advances the day only after Maghrib
MaghribReached_strictly(t, maghrib_time) == t > maghrib_time

\* ---------------------------------------------------- lunar date resolver
\* current_time >= maghrib_time
MaghribReached(t, maghrib_time) == t >= maghrib_time

\* The civil date passed to convert.Gregorian(...).to_hijri().
_get_islamic_date(row, t) ==
    LET today_gregorian == DateOf(t)
        maghrib_time_str == IF row # None THEN Get(row, "Maghrib") ELSE << >>
        advance == IF maghrib_time_str # << >> /\ strptime12(maghrib_time_str) # << >>
                   THEN IF MaghribReached(t, OnDateOf(strptime12(maghrib_time_str), t))
                        THEN 1 ELSE 0
                   ELSE 0
    IN today_gregorian + advance + islamic_date_offset

\* ------------------------------------------------------- history helpers
\* the prayer a key belongs to
PrayerOfKey == [k \in Keys |-> CHOOSE p \in PrayerNames : k \in {p, IqamahKey(p)}]
PrayerOf(key) == PrayerOfKey[key]

\* the key is one the signal trigger looks at on the weekday of t
Applicable(key, t) ==
    IF IsFriday(t) THEN PrayerOf(key) # "Dhuhr" ELSE PrayerOf(key) # "Jummah"

\* the key is applicable at t and row gives it a time of its own
Tracked(row, key, t) ==
    /\ row # None
    /\ Applicable(key, t)
    /\ Get(row, key) # << >>
    /\ key # PrayerOf(key) => Get(row, key) # Get(row, PrayerOf(key))

\* eventInstant of a tracked key on the date of t
Instant(row, key, t) == OnDateOf(strptime12(Get(row, key)), t)

\* one more sound on a history counter
Counted(n) == IF n < MaxCount THEN n + 1 ELSE n

NoWindow == [e |-> 0 - 1, n |-> 0, armed |-> FALSE]

\* win[key] describes the consecutive iterations whose instants lie in one
\* window [e, e + 1s) of the key: n counts the sounds played for the key in them,
\* armed tells whether its latch was unset before the first of them
NextWin(w, key, row, t, played, sounds) ==
    IF Tracked(row, key, t)
       /\ Instant(row, key, t) <= t /\ t < Instant(row, key, t) + U
    THEN IF w.e = Instant(row, key, t)
         THEN [w EXCEPT !.n = IF key \in sounds THEN Counted(@) ELSE @]
         ELSE [e |-> Instant(row, key, t),
               n |-> IF key \in sounds THEN 1 ELSE 0,
               armed |-> ~Played(played, key)]
    ELSE NoWindow

NoOccurrence == [e |-> 0 - 1, n |-> 0]

\* occ[key] is the occurrence (the event instant e) the key fired for last and
\* the number n of sounds played for it; it is forgotten once the window of the
\* occurrence has closed
NextOcc(o, key, row, t, sounds) ==
    IF key \in sounds
    THEN IF o.e = Instant(row, key, t)
         THEN [o EXCEPT !.n = Counted(@)]
         ELSE [e |-> Instant(row, key, t), n |-> 1]
    ELSE IF o.e >= 0 /\ t < o.e + U
         THEN o
         ELSE NoOccurrence

\* ------------------------------------------------------- user preferences
\* len(COLOR_THEMES)
n_themes == 27

\* the height of the window opened by pygame.display.set_mode((1600, 960))
screen_height == 960

FontKeys == {"date", "islamic_date", "eid_announcement"}

\* f"{font_key}_font_size"
SizeKeys == [font_key \in FontKeys |-> font_key \o "_font_size"]

_get_default_settings ==
    [current_theme_index |-> 0,
     date_font_size |-> (screen_height * 47) \div 1000,
     islamic_date_font_size |-> (screen_height * 42) \div 1000,
     eid_announcement_font_size |-> (screen_height * 42) \div 1000]

\* the index of the theme whose colours are shown
_get_current_theme(index) == index % n_themes

\* settings.json as an earlier run of the program left it
SavedSettings ==
    [_get_default_settings EXCEPT !.current_theme_index = n_themes - 1,
                                  !.date_font_size = 1]

\* what open(SETTINGS_FILE) finds at startup: no file, or a saved one
SettingsFiles == {<< >>, <<SavedSettings>>}

load_settings(file, default_settings) ==
    IF file = << >> THEN default_settings ELSE file[1]

\* the contents of the file after save_settings; written is FALSE on IOError
save_settings(file, dict, written) == IF written THEN <<dict>> ELSE file

\* the sizes a font may take in the model: MaxFont steps around the default
\* size and above the smallest size
FontSizes(font_key) ==
    {size \in 1..(_get_default_settings[SizeKeys[font_key]] + MaxFont) :
        \/ size <= 1 + MaxFont
        \/ size >= _get_default_settings[SizeKeys[font_key]] - MaxFont}

\* ----------------------------------------------------------------- actions
\* The state after MasjidDisplay(): the clock reads t, the calendar file is
\* source and the settings file is file.  An exception that leaves
\* load_prayer_times leaves __init__ and ends the process.
Boot(t, source, file) ==
    /\ now = t
    /\ settings_file = file
    /\ settings = load_settings(file, _get_default_settings)
    /\ current_theme_index = settings.current_theme_index
    /\ hide_eid_message = TRUE
    /\ source_read = source
    /\ current_date = DateOf(now)
    /\ raised = load_prayer_times_raises(source)
    /\ running = (raised = "none")
    /\ prayer_times = IF running THEN load_prayer_times(source) ELSE EmptyStore
    /\ today_prayers = get_today_prayer_times(prayer_times, now)
    /\ beep_played = [p \in PrayerNames |-> FALSE]
    /\ current_time = now
    /\ fired = {}
    /\ date_to_convert = None
    /\ countdown = NoCountdown(<< >>)
    /\ win = [k \in Keys |-> NoWindow]
    /\ occ = [k \in Keys |-> NoOccurrence]
    /\ last = "init"

\* a first start: there is no settings file yet
Init == \E t \in Grid : \E source \in Sources : Boot(t, source, << >>)

\* The body of quit: the settings file is written twice, then the process
\* exits.  written1 and written2 tell whether each write succeeded.
Exit(written1, written2) ==
    /\ settings_file' =
           save_settings(
               save_settings(settings_file,
                             [current_theme_index |-> current_theme_index,
                              date_font_size |-> settings.date_font_size,
                              islamic_date_font_size |-> settings.islamic_date_font_size,
                              eid_announcement_font_size |->
                                  settings.eid_announcement_font_size],
                             written1),
               settings, written2)
    /\ running' = FALSE

\* One iteration of the loop of run, after its input handling.  t1, t2 and t3
\* are the clock readings of the iteration: datetime.now() in run, date.today()
\* in run and in get_today_prayer_times, datetime.now() in the scheduler.
run(t1, t2, t3) ==
    /\ running
    /\ \E row \in {IF DateOf(t2) # current_date
                   THEN get_today_prayer_times(prayer_times, t2)
                   ELSE today_prayers} :
       \E st \in {_check_and_play_adhan(beep_played, row, t1)} :
          /\ now' = t3
          /\ current_time' = t1
          /\ current_date' = DateOf(t2)
          /\ today_prayers' = row
          /\ beep_played' = st.beep_played
          /\ fired' = st.fired
          /\ date_to_convert' = <<_get_islamic_date(row, t1)>>
          /\ countdown' = _get_time_until_next_event(row, prayer_times, t3)
          /\ win' = [k \in Keys |-> NextWin(win[k], k, row, t1, beep_played, st.fired)]
          /\ occ' = [k \in Keys |-> NextOcc(occ[k], k, row, t1, st.fired)]
    /\ last' = "run"
    /\ UNCHANGED <<prayer_times, source_read, running, raised, settings_file>>
    /\ UNCHANGED preference_vars

\* a reload that leaves the cached row of today as it was
reload_data_stale(source) ==
    /\ running
    /\ source_read' = source
    /\ last' = "reload_data"
    /\ raised' = load_prayer_times_raises(source)
    /\ IF raised' = "none"
       THEN /\ prayer_times' = load_prayer_times(source)
            /\ UNCHANGED <<today_prayers, running, settings_file>>
       ELSE /\ \E written1, written2 \in BOOLEAN : Exit(written1, written2)
            /\ UNCHANGED <<prayer_times, today_prayers>>
    /\ UNCHANGED <<now, current_date, beep_played, current_time, fired,
                   date_to_convert, countdown, win, occ>>
    /\ UNCHANGED preference_vars

\* a reload that adds the rows of the file to the store it has
reload_data_merged(source) ==
    /\ running
    /\ source_read' = source
    /\ last' = "reload_data"
    /\ raised' = load_prayer_times_raises(source)
    /\ IF raised' = "none"
       THEN /\ prayer_times' =
                  [d \in DOMAIN prayer_times \cup DOMAIN load_prayer_times(source) |->
                      IF d \in DOMAIN load_prayer_times(source)
                      THEN load_prayer_times(source)[d]
                      ELSE prayer_times[d]]
            /\ today_prayers' = get_today_prayer_times(prayer_times', now)
            /\ UNCHANGED <<running, settings_file>>
       ELSE /\ \E written1, written2 \in BOOLEAN : Exit(written1, written2)
            /\ UNCHANGED <<prayer_times, today_prayers>>
    /\ UNCHANGED <<now, current_date, beep_played, current_time, fired,
                   date_to_convert, countdown, win, occ>>
    /\ UNCHANGED preference_vars

\* The TAB key: the file is read again, with whatever it holds now.  An
\* exception that leaves load_prayer_times leaves run; the handler of __main__
\* calls quit.
reload_data(source) ==
    /\ running
    /\ source_read' = source
    /\ last' = "reload_data"
    /\ raised' = load_prayer_times_raises(source)
    /\ IF raised' = "none"
       THEN /\ prayer_times' = load_prayer_times(source)
            /\ today_prayers' = get_today_prayer_times(prayer_times', now)
            /\ UNCHANGED <<running, settings_file>>
       ELSE /\ \E written1, written2 \in BOOLEAN : Exit(written1, written2)
            /\ UNCHANGED <<prayer_times, today_prayers>>
    /\ UNCHANGED <<now, current_date, beep_played, current_time, fired,
                   date_to_convert, countdown, win, occ>>
    /\ UNCHANGED preference_vars

\* the RIGHT and LEFT keys
_cycle_theme(key) ==
    /\ running
    /\ current_theme_index' =
           IF key = "K_RIGHT"
           THEN (current_theme_index + 1) % n_themes
           ELSE IF key = "K_LEFT"
                THEN (current_theme_index - 1) % n_themes
                ELSE current_theme_index
    /\ last' = "_cycle_theme"
    /\ UNCHANGED <<settings, hide_eid_message, running, raised, settings_file>>
    /\ UNCHANGED engine_vars

\* the SPACE key
toggle_eid_message ==
    /\ running
    /\ hide_eid_message' = ~hide_eid_message
    /\ last' = "toggle_eid_message"
    /\ UNCHANGED <<current_theme_index, settings, running, raised, settings_file>>
    /\ UNCHANGED engine_vars

\* the keys 1 .. 6: K_2, K_4 and K_6 enlarge a font, K_1, K_3 and K_5 shrink it;
\* K_5 and K_6 act only while the Eid message is shown
_adjust_font_size(font_key, key) ==
    /\ running
    /\ \/ font_key = "date" /\ key \in {"K_2", "K_1"}
       \/ font_key = "islamic_date" /\ key \in {"K_4", "K_3"}
       \/ font_key = "eid_announcement" /\ key \in {"K_6", "K_5"} /\ ~hide_eid_message
    /\ LET size_key == SizeKeys[font_key]
           current_size == settings[size_key]
           new_size == IF key \in {"K_2", "K_4", "K_6"}
                       THEN current_size + 1
                       ELSE IF current_size - 1 > 1 THEN current_size - 1 ELSE 1
       IN /\ new_size \in FontSizes(font_key)
          /\ settings' = [settings EXCEPT ![size_key] = new_size]
    /\ last' = "_adjust_font_size"
    /\ UNCHANGED <<current_theme_index, hide_eid_message, running, raised, settings_file>>
    /\ UNCHANGED engine_vars

\* the BACKSPACE key
_reset_settings ==
    /\ running
    /\ settings' = _get_default_settings
    /\ current_theme_index' = settings'.current_theme_index
    /\ last' = "_reset_settings"
    /\ UNCHANGED <<hide_eid_message, running, raised, settings_file>>
    /\ UNCHANGED engine_vars

\* the ESCAPE key, or the window is closed
quit ==
    /\ running
    /\ \E written1, written2 \in BOOLEAN : Exit(written1, written2)
    /\ last' = "quit"
    /\ UNCHANGED <<raised, current_theme_index, settings, hide_eid_message>>
    /\ UNCHANGED engine_vars

\* the readings <<t2, t3>> of the clock that follow the reading t1 within one
\* iteration: each is the same instant or the next one
Readings(t1) ==
    {<<t1, t1>>} \cup {<<t1, t>> : t \in {t1 + 1} \cap Grid}
                 \cup {<<t, t>> : t \in {t1 + 1} \cap Grid}

\* the next instant of an iteration when nothing bounds the time between two
AnyRate == {now} \cup GridAfter(now, MaxSkip) \cup ({now + DayUnits} \cap Grid)

\* the next instant of an iteration that starts at most 1 second after the one
\* before; over a stretch without observable instants the iterations of the
\* stretch all act like its last one, which is the one that is taken
Polled ==
    {g \in Grid : now <= g /\ g <= current_time + U}
    \cup {g \in GridAfter(now, 1) : g > now + 1}

Next ==
    \/ \E t1 \in AnyRate : \E r \in Readings(t1) : run(t1, r[1], r[2])
    \/ \E source \in Sources : reload_data(source)

NextPoll ==
    \/ \E t1 \in Polled : \E r \in Readings(t1) : run(t1, r[1], r[2])
    \/ \E source \in Sources : reload_data(source)

Spec == Init /\ [][Next]_vars

SpecPoll == Init /\ [][NextPoll]_vars

\* Files of one row, for day 0, whose Fajr cell is any 24-hour time, a value
\* out of range, an empty cell or a missing one; the Asr cell is not a time.
FormatCells ==
    {<<hour, minute>> : hour \in 0..23, minute \in 0..59}
    \cup {<<24, 0>>, <<5, 60>>, << >>, restval}

FormatSources ==
    {[found |-> TRUE, date_column |-> TRUE,
      rows |-> [d \in {0} |-> [CsvRow([Asr |-> TBad, Isha |-> T1800])
                                  EXCEPT !["Fajr"] = cell]]] : cell \in FormatCells}

\* the calendar file is loaded at startup and reloaded, with any of these files
InitFormat == \E source \in FormatSources : Boot(AtTime(0, 4, 0, 0), source, << >>)

NextFormat == \E source \in FormatSources : reload_data(source)

SpecFormat == InitFormat /\ [][NextFormat]_vars

\* the preference keys and quit, from a fixed start of the engine
InitSettings ==
    \E file \in SettingsFiles :
        Boot(AtTime(0, 4, 0, 0), [found |-> TRUE, date_column |-> TRUE, rows |-> FileA], file)

NextSettings ==
    \/ \E key \in {"K_RIGHT", "K_LEFT"} : _cycle_theme(key)
    \/ toggle_eid_message
    \/ \E font_key \in FontKeys : \E key \in {"K_1", "K_2", "K_3", "K_4", "K_5", "K_6"} :
          _adjust_font_size(font_key, key)
    \/ _reset_settings
    \/ quit

SpecSettings == InitSettings /\ [][NextSettings]_vars

TypeOK ==
    /\ now \in Grid
    /\ current_time \in Grid
    /\ current_time <= now
    /\ last \in {"init", "run", "reload_data", "_cycle_theme", "toggle_eid_message",
                 "_adjust_font_size", "_reset_settings", "quit"}
    /\ running \in BOOLEAN
    /\ raised \in {"none", "KeyError", "TypeError"}
    /\ running => raised = "none"
    /\ hide_eid_message \in BOOLEAN
    /\ fired \subseteq Keys

\* ================================================================ claims
\* the candidates of today's row whose instant is strictly after t
FutureToday(row, t) == {k \in Keys : Tracked(row, k, t) /\ Instant(row, k, t) > t}

\* tomorrow's Fajr call as seen from t: << >> if unknown, else <<its instant>>
TomorrowFajr(store, t) ==
    LET tomorrow == Lookup(store, DateOf(t) + 1) IN
    IF tomorrow = None \/ Get(tomorrow, "Fajr") = << >>
    THEN << >>
    ELSE <<Midnight(DateOf(t) + 1) + strptime12(Get(tomorrow, "Fajr"))[1] * U>>

\* the instant the scheduler selected in the last iteration
Selected == now + countdown.min_time_diff[1]

\* ---- C1.  No key fires twice without a rearm in between: a sound is played
\* for a key only when its latch is unset, and it sets the latch; a set latch
\* is unset only by an iteration that sees the key more than 1 second past its
\* instant.  Consecutive iterations inside one window [e, e + 1s) of a key play
\* its sound exactly once if the latch was unset at the first of them, and not
\* at all if it was set.
C1_FiresOnlyWhenArmed ==
    \A k \in Keys :
        (last' = "run" /\ k \in fired')
            => ~Played(beep_played, k) /\ Played(beep_played', k)

C1_RearmOnlyPastWindow ==
    \A k \in Keys :
        (Played(beep_played, k) /\ ~Played(beep_played', k))
            => /\ last' = "run"
               /\ Tracked(today_prayers', k, current_time')
               /\ current_time' > Instant(today_prayers', k, current_time') + U

C1_OncePerWindowIfArmed ==
    \A k \in Keys :
        win[k].e >= 0 => win[k].n = (IF win[k].armed THEN 1 ELSE 0)

C1_NoRefireWithoutRearm ==
    /\ [][C1_FiresOnlyWhenArmed /\ C1_RearmOnlyPastWindow]_vars
    /\ []C1_OncePerWindowIfArmed

\* C1 as stated, second clause: the iterations inside one window of a key play
\* its sound exactly once.
C1_ExactlyOneFiringPerWindow ==
    \A k \in Keys : win[k].e >= 0 => win[k].n = 1

\* a second iteration inside the window of a key that fired in the first
C1_SecondTickInWindow ==
    /\ last = "run"
    /\ \E k \in Keys :
          /\ win[k].e >= 0 /\ current_time > win[k].e
          /\ win[k].armed /\ win[k].n = 1
          /\ k \notin fired

\* ---- C2.  With iterations at most 1 second apart, every occurrence of a
\* key fires exactly once: after an iteration inside a window [e, e + 1s) of a
\* key, one sound has been played for the key in that window, whatever reloads
\* and date changes came before.
C2_ExactlyOncePerOccurrence ==
    last = "run" =>
        \A k \in Keys :
            (/\ Tracked(today_prayers, k, current_time)
             /\ Instant(today_prayers, k, current_time) <= current_time
             /\ current_time < Instant(today_prayers, k, current_time) + U)
                => /\ occ[k].e = Instant(today_prayers, k, current_time)
                   /\ occ[k].n = 1

\* ---- C3.  After an iteration at or past the end of the window of a key
\* (now >= eventInstant + 1s), the latch of the key is unset.
C3_ClearedFromWindowEnd ==
    last = "run" =>
        \A k \in Keys :
            (/\ Tracked(today_prayers, k, current_time)
             /\ current_time >= Instant(today_prayers, k, current_time) + U)
                => ~Played(beep_played, k)

\* ---- C4.  Whenever the scheduler returns an event, the instant it selected
\* is strictly later than the instant the scheduler ran at.
C4_SelectedAfterNow ==
    (last = "run" /\ countdown.next_event # NoEvent)
        => countdown.min_time_diff # << >> /\ Selected > now

\* the scheduler ran exactly at the instant of a key of today and returned a later event
C4_AtAnEventInstant ==
    /\ last = "run"
    /\ countdown.next_event # NoEvent
    /\ \E k \in Keys : Tracked(today_prayers, k, now) /\ Instant(today_prayers, k, now) = now

\* ---- C5.  Jummah and its congregation never fire and are never returned
\* on a day other than Friday; Dhuhr and its congregation never fire and are
\* never returned on a Friday.
C5_WeekdaySubstitution ==
    last = "run" =>
        /\ IsFriday(current_time) => fired \cap {"Dhuhr", IqamahKey("Dhuhr")} = {}
        /\ ~IsFriday(current_time) => fired \cap {"Jummah", IqamahKey("Jummah")} = {}
        /\ IsFriday(now) => countdown.next_event # "Dhuhr"
        /\ ~IsFriday(now) => countdown.next_event # "Jummah"

\* a Friday iteration at the Dhuhr time of a row that has Dhuhr and Jummah
C5_FridayAtDhuhrTime ==
    /\ last = "run"
    /\ today_prayers # None
    /\ IsFriday(current_time) /\ IsFriday(now)
    /\ Get(today_prayers, "Dhuhr") # << >>
    /\ Get(today_prayers, "Jummah") # << >>
    /\ current_time = Instant(today_prayers, "Dhuhr", current_time)
    /\ fired = {}
    /\ countdown.next_event = "Jummah"

\* ---- C6.  On a Friday whose row has a Dhuhr time and no Jummah time, the
\* Dhuhr time is the Friday midday slot: an iteration in its window leaves the
\* midday latch set, and a scheduler run before it returns an event no later
\* than it.
C6_FridayMiddayUnderEitherName ==
    (/\ last = "run"
     /\ today_prayers # None
     /\ Get(today_prayers, "Jummah") = << >>
     /\ Get(today_prayers, "Dhuhr") # << >>)
        => /\ (/\ IsFriday(current_time)
               /\ Instant(today_prayers, "Dhuhr", current_time) <= current_time
               /\ current_time < Instant(today_prayers, "Dhuhr", current_time) + U)
                  => Played(beep_played, "Dhuhr") \/ Played(beep_played, "Jummah")
           /\ (IsFriday(now) /\ now < Instant(today_prayers, "Dhuhr", now))
                  => /\ countdown.next_event # NoEvent
                     /\ Selected <= Instant(today_prayers, "Dhuhr", now)

\* ---- C7.  The returned hours, minutes and seconds add up to the whole
\* seconds of the difference plus one, with minutes and seconds below 60.
C7_CountdownDecomposition ==
    (last = "run" /\ countdown.next_event # NoEvent)
        => /\ countdown.hours * 3600 + countdown.minutes * 60 + countdown.seconds
                = (countdown.min_time_diff[1] \div U) + 1
           /\ countdown.minutes \in 0..59
           /\ countdown.seconds \in 0..59
           /\ countdown.hours >= 0
           /\ countdown.hours * 3600 + countdown.minutes * 60 + countdown.seconds >= 1

\* at 04:00:00 with Fajr at 05:30 the countdown is 1h 30m 1s
C7_ScenarioA ==
    /\ last = "run"
    /\ now = AtTime(DateOf(now), 4, 0, 0)
    /\ countdown.next_event = "Fajr"
    /\ Selected = AtTime(DateOf(now), 5, 30, 0)
    /\ countdown.hours = 1 /\ countdown.minutes = 30 /\ countdown.seconds = 1

\* ---- C8.  With today's row present: if no candidate of today is after now,
\* the scheduler returns the Fajr call at tomorrow's Fajr instant when that is
\* known and no event otherwise; if some candidate of today is after now, the
\* selected instant is one of today's.
C8_CrossDayFallback ==
    (last = "run" /\ today_prayers # None) =>
        IF FutureToday(today_prayers, now) = {}
        THEN IF TomorrowFajr(prayer_times, now) # << >>
             THEN /\ countdown.next_event = "Fajr"
                  /\ ~countdown.is_iqamah
                  /\ countdown.min_time_diff # << >>
                  /\ Selected = TomorrowFajr(prayer_times, now)[1]
             ELSE /\ countdown.next_event = NoEvent
                  /\ countdown.hours = 0 /\ countdown.minutes = 0 /\ countdown.seconds = 0
                  /\ ~countdown.is_iqamah
        ELSE /\ countdown.next_event # NoEvent
             /\ \E k \in FutureToday(today_prayers, now) :
                    /\ Selected = Instant(today_prayers, k, now)
                    /\ countdown.next_event = PrayerOf(k)

\* all of today's events have passed and tomorrow's Fajr is returned
C8_ScenarioC ==
    /\ last = "run"
    /\ today_prayers # None
    /\ \E k \in Keys : Tracked(today_prayers, k, now)
    /\ FutureToday(today_prayers, now) = {}
    /\ countdown.next_event = "Fajr"
    /\ Selected >= Midnight(DateOf(now) + 1)

\* ---- C9.  An iteration on a date for which the store has no row returns
\* no event with a zero countdown, plays no sound and changes no latch.
C9_NoDataToday ==
    [][(last' = "run" /\ Lookup(prayer_times', current_date') = None)
          => /\ countdown' = NoCountdown(<< >>)
             /\ fired' = {}
             /\ beep_played' = beep_played]_vars

\* an iteration without a row for today, with tomorrow's Fajr known and a latch set
C9_NoRowButTomorrowKnown ==
    /\ last = "run"
    /\ Lookup(prayer_times, current_date) = None
    /\ TomorrowFajr(prayer_times, now) # << >>
    /\ \E k \in Keys : Played(beep_played, k)

\* ---- C10.  The civil date handed to the lunar conversion is the date of
\* now, plus one exactly when today's row has a Maghrib time and now is at or
\* after it, plus the manual offset.
C10_LunarInputDate ==
    last = "run" =>
        date_to_convert[1] =
            DateOf(current_time)
            + (IF /\ today_prayers # None
                  /\ Get(today_prayers, "Maghrib") # << >>
                  /\ current_time >= Instant(today_prayers, "Maghrib", current_time)
               THEN 1 ELSE 0)
            + islamic_date_offset

\* an iteration exactly at Maghrib, for which the day is advanced
C10_ExactlyAtMaghrib ==
    /\ last = "run"
    /\ today_prayers # None
    /\ Get(today_prayers, "Maghrib") # << >>
    /\ current_time = Instant(today_prayers, "Maghrib", current_time)
    /\ date_to_convert[1] = DateOf(current_time) + 1 + islamic_date_offset

\* ---- C11.  Loading the calendar never fails: after startup and after a
\* reload, whatever the file holds, no exception has left load_prayer_times
\* and the process is running; a file that does not exist gives an empty store.
C11_LoadNeverFails ==
    last \in {"init", "reload_data"} =>
        /\ raised = "none"
        /\ running
        /\ ~source_read.found => prayer_times = EmptyStore

\* ---- C12.  Every cell of the source that is a 24-hour time HH:MM is stored
\* as the 12-hour string of the same time of day (hour 0 as 12 AM, 12 as 12 PM,
\* 13 .. 23 as 1 .. 11 PM), and parsing the stored string with the 12-hour
\* format gives the same hour and minute back; every other cell is stored as
\* the absent value "", next to the cells of its row that were kept.
C12_NormalizationRoundTrip ==
    (running /\ source_read.found) =>
        /\ DOMAIN prayer_times = DOMAIN source_read.rows
        /\ \A d \in DOMAIN source_read.rows : \A k \in Keys :
              LET cell == source_read.rows[d][k]
                  stored == prayer_times[d][k]
              IN IF Len(cell) = 2 /\ cell[1] \in 0..23 /\ cell[2] \in 0..59
                 THEN /\ stored = << IF cell[1] = 0 THEN 12
                                     ELSE IF cell[1] <= 12 THEN cell[1] ELSE cell[1] - 12,
                                     cell[2],
                                     IF cell[1] <= 11 THEN "AM" ELSE "PM" >>
                      /\ strptime12(stored) = <<cell[1] * 3600 + cell[2] * 60>>
                 ELSE stored = << >>

\* "00:15" was loaded as "12:15 AM" from a row whose Asr cell is not a time
C12_QuarterPastMidnight ==
    /\ last = "reload_data"
    /\ running
    /\ source_read.rows[0]["Fajr"] = <<0, 15>>
    /\ source_read.rows[0]["Asr"] = TBad
    /\ prayer_times[0]["Fajr"] = <<12, 15, "AM">>
    /\ prayer_times[0]["Asr"] = << >>
    /\ prayer_times[0]["Isha"] = <<6, 0, "PM">>

\* ---- C13.  A reload that returns leaves in the store exactly the dates of
\* the file read, each with the cells of its row in normalized form (no date
\* at all for a file that does not exist), and leaves as today's row the row of
\* that store for the date of now, or None; every other step leaves the store
\* as it is.
C13_ReloadReplaces ==
    [][/\ (last' = "reload_data" /\ running') =>
             /\ DOMAIN prayer_times' =
                    (IF source_read'.found THEN DOMAIN source_read'.rows ELSE {})
             /\ \A d \in DOMAIN prayer_times' :
                    prayer_times'[d] = [k \in DOMAIN source_read'.rows[d] |->
                                          format_prayer_time(source_read'.rows[d][k])]
             /\ today_prayers' = (IF DateOf(now') \in DOMAIN prayer_times'
                                  THEN prayer_times'[DateOf(now')]
                                  ELSE None)
       /\ ~(last' = "reload_data" /\ running') => prayer_times' = prayer_times]_vars

\* after a reload the row of today is gone, although the countdown of the
\* last iteration was still computed from a row of today
C13_TodayDroppedByReload ==
    /\ last = "reload_data"
    /\ running
    /\ source_read.found
    /\ DOMAIN prayer_times # {}
    /\ DateOf(now) \notin DOMAIN prayer_times
    /\ today_prayers = None
    /\ current_date = DateOf(now)
    /\ countdown.next_event # NoEvent

\* the keys in the order the scheduler declares its candidates in
Declared(is_friday) ==
    LET order == prayer_order(is_friday) IN
    [i \in 1..(2 * Len(order)) |->
        IF i % 2 = 1 THEN order[(i + 1) \div 2] ELSE IqamahKey(order[i \div 2])]

\* the candidate the scheduler has to return at t: among the candidates of row
\* that are strictly after t, the one declared first among those nearest to t
Winner(row, t) ==
    LET declared == Declared(IsFriday(t))
        ahead == {i \in DOMAIN declared : declared[i] \in FutureToday(row, t)}
        nearest == {i \in ahead : \A j \in ahead :
                       Instant(row, declared[i], t) <= Instant(row, declared[j], t)}
    IN declared[CHOOSE i \in nearest : \A j \in nearest : i <= j]

\* ---- C14.  When some candidate of today's row is strictly after now, the
\* scheduler returns the candidate with the smallest difference to now, and of
\* several at the same instant the one declared first: its prayer, its instant
\* and its congregation flag.
C14_NearestFirstDeclared ==
    (/\ last = "run"
     /\ today_prayers # None
     /\ FutureToday(today_prayers, now) # {})
        => LET winner == Winner(today_prayers, now) IN
           /\ countdown.next_event = PrayerOf(winner)
           /\ countdown.is_iqamah = (winner # PrayerOf(winner))
           /\ countdown.min_time_diff # << >>
           /\ Selected = Instant(today_prayers, winner, now)

\* the congregation time of Asr and the call time of Isha are the same
\* instant, the nearest after now: the congregation of Asr is returned
C14_TieAtIsha ==
    /\ last = "run"
    /\ today_prayers # None
    /\ {"Asr_Iqamah", "Isha"} \subseteq FutureToday(today_prayers, now)
    /\ Instant(today_prayers, "Asr_Iqamah", now) = Instant(today_prayers, "Isha", now)
    /\ Selected = Instant(today_prayers, "Isha", now)
    /\ countdown.next_event = "Asr"
    /\ countdown.is_iqamah

\* the instant of the time string time_str on the date of t
InstantOf(time_str, t) == OnDateOf(strptime12(time_str), t)

\* ---- C15.  For a prayer of today whose congregation string is identical to
\* its call string, an iteration plays no sound for the congregation key and
\* leaves its latch as it was, the call key fires in its window on its own
\* latch, and the scheduler returns that instant of the prayer as a call, not
\* as a congregation.  When the two strings differ, each of the two keys fires
\* in its own window exactly when its own latch is unset, and the scheduler
\* returns nothing later than either of them while it is ahead.
C15_Deduplication ==
    [][(last' = "run" /\ today_prayers' # None) =>
          \A p \in PrayerNames :
             LET adhan == Get(today_prayers', p)
                 iqamah == Get(today_prayers', IqamahKey(p))
                 same == adhan # << >> /\ iqamah = adhan
                 differ == adhan # << >> /\ iqamah # << >> /\ iqamah # adhan
                 fires_on_own_latch(k, time_str) ==
                     InWindow(InstantOf(time_str, current_time'), current_time')
                         => (k \in fired' <=> ~Played(beep_played, k))
             IN /\ (Applicable(p, current_time') /\ same) =>
                      /\ IqamahKey(p) \notin fired'
                      /\ Played(beep_played', IqamahKey(p)) = Played(beep_played, IqamahKey(p))
                      /\ fires_on_own_latch(p, adhan)
                /\ (Applicable(p, now') /\ same /\ countdown'.next_event = p) =>
                      (now' + countdown'.min_time_diff[1] = InstantOf(adhan, now')
                          => ~countdown'.is_iqamah)
                /\ (Applicable(p, current_time') /\ differ) =>
                      /\ fires_on_own_latch(p, adhan)
                      /\ fires_on_own_latch(IqamahKey(p), iqamah)
                /\ (Applicable(p, now') /\ differ) =>
                      \A time_str \in {adhan, iqamah} :
                         InstantOf(time_str, now') > now' =>
                            /\ countdown'.next_event # NoEvent
                            /\ now' + countdown'.min_time_diff[1] <= InstantOf(time_str, now')]_vars

\* an iteration at the instant that is both the call and the congregation of
\* a prayer: the call key alone has fired, and the scheduler ran there too
C15_CallAndCongregationCoincide ==
    /\ last = "run"
    /\ today_prayers # None
    /\ \E p \in PrayerNames :
          /\ Applicable(p, current_time)
          /\ Get(today_prayers, p) # << >>
          /\ Get(today_prayers, IqamahKey(p)) = Get(today_prayers, p)
          /\ current_time = InstantOf(Get(today_prayers, p), current_time)
          /\ fired = {p}
          /\ ~Played(beep_played, IqamahKey(p))

\* ---- C16.  An iteration plays no sound for a key and leaves its latch as
\* it was when there is no row for today, when the key is not applicable on the
\* weekday, when its time is absent, or when the instant of the iteration is
\* before its event instant; a latch changes only for a key that fires or that
\* is seen more than 1 second past its instant; the iteration leaves the store
\* as it was, and today's row too unless the date has changed.
C16_TriggerFrame ==
    [][last' = "run" =>
          /\ \A k \in Keys :
                (\/ today_prayers' = None
                 \/ ~Applicable(k, current_time')
                 \/ Get(today_prayers', k) = << >>
                 \/ current_time' < Instant(today_prayers', k, current_time'))
                    => /\ k \notin fired'
                       /\ Played(beep_played', k) = Played(beep_played, k)
          /\ \A k \in Keys :
                Played(beep_played', k) # Played(beep_played, k)
                    => \/ k \in fired' /\ Played(beep_played', k)
                       \/ /\ ~Played(beep_played', k)
                          /\ Tracked(today_prayers', k, current_time')
                          /\ current_time' > Instant(today_prayers', k, current_time') + U
          /\ prayer_times' = prayer_times
          /\ current_date' = current_date => today_prayers' = today_prayers]_vars

\* an iteration before the instant of a key whose latch is set: it stays set
C16_SetLatchBeforeEvent ==
    /\ last = "run"
    /\ \E k \in Keys :
          /\ Tracked(today_prayers, k, current_time)
          /\ current_time < Instant(today_prayers, k, current_time)
          /\ Played(beep_played, k)
          /\ k \notin fired

FirstSaved == [settings EXCEPT !.current_theme_index = current_theme_index]

\* ---- C18.  After quit has written the settings file, the file holds as
\* current_theme_index the theme index in effect at quit, and that index is
\* one of 0 .. n_themes - 1.
C18_ThemeSavedOnQuit ==
    (last = "quit" /\ settings_file \in {<<FirstSaved>>, <<settings>>}) =>
        /\ settings_file[1].current_theme_index = current_theme_index
        /\ current_theme_index \in 0..(n_themes - 1)
====
